---- MODULE Spec2Model ----
(***************************************************************************)
(* A model of utils/hemp_segmentation.py: the learning-rate schedule       *)
(* (StepDecay), the evaluation Dice score (get_dice_score), the crops of   *)
(* the augmentation pipeline (central_crop, random_crop), the backbone     *)
(* selector and decoder builder (create_backbone,                          *)
(* segmentation_model_func), the dataset assembler (create_train_datasets) *)
(* and the F-score / Dice loss (f_score, average, dice_loss).              *)
(*                                                                         *)
(* Each component has its own variables and its own specification; a       *)
(* specification leaves the variables of the other components at their     *)
(* idle value.  Real numbers are exact rationals [n, d] in lowest terms.   *)
(***************************************************************************)
EXTENDS Integers, Sequences, FiniteSets, TLC

VARIABLES
    sdObj,      \* StepDecay: the instance's fields initAlpha, factor, dropEvery
    sdCtor,     \* StepDecay: the arguments __init__ was called with
    sdCalls,    \* StepDecay: the calls made so far, [epoch, alpha] in call order
    dMsk,       \* get_dice_score: the msk argument, a boolean tensor [B, H, W, C]
    dPred,      \* get_dice_score: the pred argument, a boolean tensor [B, H, W, C]
    dCall,      \* get_dice_score: the call made, if any: <<[skip_background, result]>>
    mArgs,      \* segmentation_model_func: its arguments
    mPc,        \* segmentation_model_func: where the call is
    mBackbone,  \* segmentation_model_func: down_stack, once created: <<backbone>>
    mSkips,     \* segmentation_model_func: the skip tensors looked up
    mX,         \* segmentation_model_func: x, once seeded: <<tensor>>
    mPairs,     \* segmentation_model_func: the (skip, filters) pairs left to the loop
    mConcats,   \* segmentation_model_func: the concatenations made, in order
    mErr,       \* segmentation_model_func: the error raised, if any: <<error>>
    cSample,    \* crops: the (image, mask, image_path) a map step is given
    cOut,       \* crops: the step applied and what it returned, if any: <<result>>
    pArgs,      \* dataset: the split built, its two listings' lengths, buffer_size, batch_size
    pNext,      \* dataset: how many pairs the zip has produced
    pBuffer,    \* dataset: the elements in the shuffle buffer
    pQueues,    \* dataset: pQueues[k+1] holds, in order, the elements k map steps have processed
    pBatch,     \* dataset: the batch being filled
    pBatches,   \* dataset: the batches emitted, in order
    pDone,      \* dataset: the pass over the pipeline has ended
    fGt,        \* f_score: the gt argument, a tensor [B, H, W, C]
    fPr,        \* f_score: the pr argument, a tensor [B, H, W, C]
    fCall       \* f_score: the calls made on gt, pr and their channel permutations, if any

sdVars == <<sdObj, sdCtor, sdCalls>>
diceVars == <<dMsk, dPred, dCall>>
modelVars == <<mArgs, mPc, mBackbone, mSkips, mX, mPairs, mConcats, mErr>>
cropVars == <<cSample, cOut>>
pipeVars == <<pArgs, pNext, pBuffer, pQueues, pBatch, pBatches, pDone>>
fscoreVars == <<fGt, fPr, fCall>>

vars == <<sdObj, sdCtor, sdCalls, dMsk, dPred, dCall,
          mArgs, mPc, mBackbone, mSkips, mX, mPairs, mConcats, mErr,
          cSample, cOut,
          pArgs, pNext, pBuffer, pQueues, pBatch, pBatches, pDone,
          fGt, fPr, fCall>>

None == "None"

(***************************************************************************)
(* Exact rational arithmetic.                                              *)
(***************************************************************************)
Abs(x) == IF x < 0 THEN -x ELSE x

RECURSIVE GCD(_, _)
GCD(a, b) == IF b = 0 THEN a ELSE GCD(b, a % b)

Rat(n, d) ==
    LET g == GCD(Abs(n), Abs(d))
        s == IF d < 0 THEN -1 ELSE 1
    IN  [n |-> (s * n) \div g, d |-> (s * d) \div g]

RatInt(k) == [n |-> k, d |-> 1]
RatAdd(a, b) == Rat(a.n * b.d + b.n * a.d, a.d * b.d)
RatSub(a, b) == Rat(a.n * b.d - b.n * a.d, a.d * b.d)
RatMul(a, b) == Rat(a.n * b.n, a.d * b.d)
RatDiv(a, b) == Rat(a.n * b.d, a.d * b.n)
RatGt(a, b) == a.n * b.d > b.n * a.d
RatFloor(a) == a.n \div a.d

RECURSIVE RatPow(_, _)
RatPow(a, k) == IF k = 0 THEN RatInt(1) ELSE RatMul(a, RatPow(a, k - 1))

(***************************************************************************)
(* Idle values of the components.                                          *)
(***************************************************************************)
StepDecayIdle ==
    /\ sdObj = None
    /\ sdCtor = None
    /\ sdCalls = <<>>

DiceIdle ==
    /\ dMsk = None
    /\ dPred = None
    /\ dCall = <<>>

ModelIdle ==
    /\ mArgs = None
    /\ mPc = "idle"
    /\ mBackbone = <<>>
    /\ mSkips = <<>>
    /\ mX = <<>>
    /\ mPairs = <<>>
    /\ mConcats = <<>>
    /\ mErr = <<>>

CropIdle ==
    /\ cSample = None
    /\ cOut = <<>>

PipeIdle ==
    /\ pArgs = None
    /\ pNext = 0
    /\ pBuffer = {}
    /\ pQueues = <<>>
    /\ pBatch = <<>>
    /\ pBatches = <<>>
    /\ pDone = FALSE

FScoreIdle ==
    /\ fGt = None
    /\ fPr = None
    /\ fCall = <<>>

(***************************************************************************)
(* StepDecay (lines 538-561).                                              *)
(***************************************************************************)
MaxEpoch == 10
MaxDropEvery == 10
MaxCalls == 2

DefaultInitAlpha == Rat(1, 100)
DefaultFactor == Rat(1, 4)
DefaultDropEvery == 10

InitAlphas == {DefaultInitAlpha, Rat(1, 10)}
Factors == {DefaultFactor, Rat(1, 2)}

\* __init__: the three arguments are stored, nothing else.
StepDecayInit(initAlpha, factor, dropEvery) ==
    [initAlpha |-> initAlpha, factor |-> factor, dropEvery |-> dropEvery]

\* exp = np.floor((1 + epoch) / self.dropEvery), without the leading 1.
StepDecayExpNoPlusOne(self, epoch) ==
    RatFloor(Rat(epoch, self.dropEvery))

\* exp = np.floor((1 + epoch) / self.dropEvery): a true division, then floor.
StepDecayExp(self, epoch) ==
    RatFloor(Rat(1 + epoch, self.dropEvery))

\* alpha with the decay factor multiplied by the exponent, not raised to it.
StepDecayAlphaLinear(self, epoch) ==
    IF StepDecayExp(self, epoch) = 0 THEN self.initAlpha
    ELSE RatMul(self.initAlpha,
                RatMul(self.factor, RatInt(StepDecayExp(self, epoch))))

\* alpha = self.initAlpha * (self.factor ** exp)
StepDecayAlpha(self, epoch) ==
    RatMul(self.initAlpha, RatPow(self.factor, StepDecayExp(self, epoch)))

InitStepDecay ==
    /\ FScoreIdle
    /\ PipeIdle
    /\ DiceIdle
    /\ ModelIdle
    /\ CropIdle
    /\ \E a \in InitAlphas, f \in Factors, d \in 1..MaxDropEvery :
          /\ sdObj = StepDecayInit(a, f, d)
          /\ sdCtor = <<a, f, d>>
    /\ sdCalls = <<>>

\* __call__(epoch): computes and returns alpha; reads the fields, writes none.
StepDecayCall ==
    /\ Len(sdCalls) < MaxCalls
    /\ \E epoch \in 0..MaxEpoch :
          sdCalls' = Append(sdCalls,
                            [epoch |-> epoch, alpha |-> StepDecayAlpha(sdObj, epoch)])
    /\ UNCHANGED <<sdObj, sdCtor>>
    /\ UNCHANGED <<diceVars, modelVars, cropVars, pipeVars, fscoreVars>>

NextStepDecay == StepDecayCall

SpecStepDecay == InitStepDecay /\ [][NextStepDecay]_vars

\* C1: every call __call__(e) returns initAlpha * factor^k for the k with
\* k*dropEvery <= 1+e < (k+1)*dropEvery (k = floor((1+e)/dropEvery)), computed
\* from the constructor's arguments; the fields stay what the constructor was
\* given, so two calls with the same epoch return the same rate whatever was
\* called in between.
C1_StepDecayClosedForm ==
    /\ sdObj = StepDecayInit(sdCtor[1], sdCtor[2], sdCtor[3])
    /\ \A i \in DOMAIN sdCalls :
          \E k \in 0..(MaxEpoch + 1) :
             /\ k * sdCtor[3] <= 1 + sdCalls[i].epoch
             /\ 1 + sdCalls[i].epoch < (k + 1) * sdCtor[3]
             /\ sdCalls[i].alpha = RatMul(sdCtor[1], RatPow(sdCtor[2], k))
    /\ \A i, j \in DOMAIN sdCalls :
          sdCalls[i].epoch = sdCalls[j].epoch => sdCalls[i].alpha = sdCalls[j].alpha

\* Two calls were made, out of epoch order, the later one past two drops.
C1_Witness ==
    /\ Len(sdCalls) = 2
    /\ sdCalls[1].epoch > sdCalls[2].epoch
    /\ sdCtor[3] > 1
    /\ 1 + sdCalls[1].epoch >= 2 * sdCtor[3]

IsDefaultStepDecay ==
    sdCtor = <<DefaultInitAlpha, DefaultFactor, DefaultDropEvery>>

\* C2 as stated: with initAlpha=0.01, factor=0.25, dropEvery=10, __call__(9)
\* returns 0.01 (the rate of epoch 0) and __call__(10) returns 0.0025.
C2_FirstDropAtEpoch10 ==
    IsDefaultStepDecay =>
        \A i \in DOMAIN sdCalls :
           /\ sdCalls[i].epoch = 0 => sdCalls[i].alpha = Rat(1, 100)
           /\ sdCalls[i].epoch = 9 => sdCalls[i].alpha = Rat(1, 100)
           /\ sdCalls[i].epoch = 10 => sdCalls[i].alpha = Rat(1, 400)

\* C2 amended: with initAlpha=0.01, factor=0.25, dropEvery=10, __call__(e)
\* returns 0.01 for e = 0..8, and 0.0025 for e = 9 and for e = 10: the first
\* drop happens at epoch index 9.
C2_FirstDropAtEpoch9 ==
    IsDefaultStepDecay =>
        \A i \in DOMAIN sdCalls :
           /\ sdCalls[i].epoch <= 8 => sdCalls[i].alpha = Rat(1, 100)
           /\ sdCalls[i].epoch \in {9, 10} => sdCalls[i].alpha = Rat(1, 400)

\* The default schedule was asked for epoch 8 and then for epoch 9.
C2_Witness ==
    /\ IsDefaultStepDecay
    /\ Len(sdCalls) = 2
    /\ sdCalls[1].epoch = 8
    /\ sdCalls[2].epoch = 9

(***************************************************************************)
(* get_dice_score (lines 356-381).  A tensor is [shape, at]: at maps every *)
(* index <<b, h, w, c>> (from 0) to its value.                             *)
(***************************************************************************)
MaxBatch == 2
MaxTrue == 4

\* One sample of two pixels, or up to MaxBatch samples of one pixel; 3 classes.
DiceShapes ==
    {[b |-> 1, h |-> 1, w |-> 2, c |-> 3]}
        \cup {[b |-> b, h |-> 1, w |-> 1, c |-> 3] : b \in 1..MaxBatch}

Indexes(shape) ==
    (0..(shape.b - 1)) \X (0..(shape.h - 1)) \X (0..(shape.w - 1)) \X (0..(shape.c - 1))

Min(a, b) == IF a < b THEN a ELSE b
Max(a, b) == IF a > b THEN a ELSE b

\* t[..., lo:hi] with 0 <= lo <= hi: the channels lo .. min(hi, C) - 1.
ChannelSlice(t, lo, hi) ==
    LET c == Max(Min(hi, t.shape.c) - Min(lo, t.shape.c), 0)
        shape == [t.shape EXCEPT !.c = c]
    IN  [shape |-> shape,
         at |-> [i \in Indexes(shape) |-> t.at[<<i[1], i[2], i[3], i[4] + lo>>]]]

\* t[batch]: the sample's [H, W, C] values.
Sample(t, batch) ==
    [i \in (0..(t.shape.h - 1)) \X (0..(t.shape.w - 1)) \X (0..(t.shape.c - 1))
        |-> t.at[<<batch, i[1], i[2], i[3]>>]]

\* np.sum of a boolean array: the number of true entries.
NpSumBool(m) == Cardinality({i \in DOMAIN m : m[i]})

LogicalAnd(m, p) == [i \in DOMAIN m |-> m[i] /\ p[i]]
LogicalOr(m, p) == [i \in DOMAIN m |-> m[i] \/ p[i]]

(***************************************************************************)
(* A score is n / (d * eps^e): e = 1 when the denominator is               *)
(* np.finfo(float).eps = 2^-52, which no machine integer of the model      *)
(* holds.  0 / eps is the number 0.                                        *)
(***************************************************************************)
Score(n, d) == [n |-> Rat(n, d).n, d |-> Rat(n, d).d, e |-> 0]
OverEps(n) == IF n = 0 THEN Score(0, 1) ELSE [n |-> n, d |-> 1, e |-> 1]

\* dice_score = 2. * np.sum(intersection) / denominator, 0 replaced by eps.
DiceOf(intersection, m, p) ==
    LET denominator == NpSumBool(m) + NpSumBool(p)
    IN  IF denominator = 0
        THEN OverEps(2 * NpSumBool(intersection))
        ELSE Score(2 * NpSumBool(intersection), denominator)

\* The loop body with np.logical_or in the place of np.logical_and.
DiceSampleOr(m, p) == DiceOf(LogicalOr(m, p), m, p)

\* The loop body: the score of one sample of the batch.
DiceSample(m, p) == DiceOf(LogicalAnd(m, p), m, p)

RECURSIVE SumScores(_)
SumScores(metric) ==
    IF metric = <<>> THEN RatInt(0)
    ELSE RatAdd([n |-> Head(metric).n, d |-> Head(metric).d], SumScores(Tail(metric)))

\* np.mean(metric); a term over eps dwarfs every other term of the sum.
NpMean(metric) ==
    LET big == SelectSeq(metric, LAMBDA s : s.e = 1)
        sum == SumScores(IF big = <<>> THEN metric ELSE big)
        mean == RatDiv(sum, RatInt(Len(metric)))
    IN  [n |-> mean.n, d |-> mean.d, e |-> IF big = <<>> THEN 0 ELSE 1]

\* get_dice_score scoring every channel whatever skip_background is.
GetDiceScoreAllChannels(msk, pred, skip_background) ==
    NpMean([batch \in 1..msk.shape.b |->
               DiceSample(Sample(msk, batch - 1), Sample(pred, batch - 1))])

get_dice_score(msk, pred, skip_background) ==
    LET m == IF skip_background THEN ChannelSlice(msk, 0, 2) ELSE msk
        p == IF skip_background THEN ChannelSlice(pred, 0, 2) ELSE pred
        batch_size == m.shape.b
        metric == [batch \in 1..batch_size |->
                      DiceSample(Sample(m, batch - 1), Sample(p, batch - 1))]
    IN  NpMean(metric)

AllFalse(shape) == [shape |-> shape, at |-> [i \in Indexes(shape) |-> FALSE]]

TrueCount(t) == Cardinality({i \in DOMAIN t.at : t.at[i]})

InitDice ==
    /\ FScoreIdle
    /\ PipeIdle
    /\ StepDecayIdle
    /\ ModelIdle
    /\ CropIdle
    /\ \E shape \in DiceShapes :
          /\ dMsk = AllFalse(shape)
          /\ dPred = AllFalse(shape)
    /\ dCall = <<>>

\* The caller's mask: one more true pixel.
DiceSetMsk ==
    /\ dCall = <<>>
    /\ TrueCount(dMsk) + TrueCount(dPred) < MaxTrue
    /\ \E i \in DOMAIN dMsk.at :
          /\ ~dMsk.at[i]
          /\ dMsk' = [dMsk EXCEPT !.at[i] = TRUE]
    /\ UNCHANGED <<dPred, dCall>>
    /\ UNCHANGED <<sdVars, modelVars, cropVars, pipeVars, fscoreVars>>

\* The caller's prediction: one more true pixel.
DiceSetPred ==
    /\ dCall = <<>>
    /\ TrueCount(dMsk) + TrueCount(dPred) < MaxTrue
    /\ \E i \in DOMAIN dPred.at :
          /\ ~dPred.at[i]
          /\ dPred' = [dPred EXCEPT !.at[i] = TRUE]
    /\ UNCHANGED <<dMsk, dCall>>
    /\ UNCHANGED <<sdVars, modelVars, cropVars, pipeVars, fscoreVars>>

\* label > 0.5, pred > 0.5: the boolean tensor of a float tensor.
Greater(t, threshold) ==
    [t EXCEPT !.at = [i \in DOMAIN t.at |-> RatGt(t.at[i], threshold)]]

\* tf.py_function(get_dice_score, [label > 0.5, pred > 0.5], tf.float32):
\* skip_background keeps its default, True.
my_dice_metric_hemp(label, pred) ==
    get_dice_score(Greater(label, Rat(1, 2)), Greater(pred, Rat(1, 2)), TRUE)

\* tf.py_function(get_dice_score, [label > 0.5, pred > 0.5, False], tf.float32)
my_dice_metric_all(label, pred) ==
    get_dice_score(Greater(label, Rat(1, 2)), Greater(pred, Rat(1, 2)), FALSE)

\* A float tensor with the value high where the boolean tensor is true and the
\* value low where it is false.
FloatOf(t, low, high) ==
    [t EXCEPT !.at = [i \in DOMAIN t.at |-> IF t.at[i] THEN high ELSE low]]

\* The values of a float label or prediction: at most 0.5 where the class is
\* off, above 0.5 where it is on.
LowValues == {RatInt(0), Rat(1, 2)}
HighValues == {Rat(3, 4), RatInt(1)}

\* get_dice_score(msk, pred, skip_background): the arguments are not changed.
DiceCall ==
    /\ dCall = <<>>
    /\ \E skip \in BOOLEAN :
          dCall' = <<[fn |-> "get_dice_score",
                      floats |-> <<>>,
                      skip_background |-> skip,
                      result |-> get_dice_score(dMsk, dPred, skip)]>>
    /\ UNCHANGED <<dMsk, dPred>>
    /\ UNCHANGED <<sdVars, modelVars, cropVars, pipeVars, fscoreVars>>

\* my_dice_metric_hemp(label, pred) on float tensors that are above 0.5 exactly
\* where msk and pred are true.
DiceMetricHempCall ==
    /\ dCall = <<>>
    /\ \E low \in LowValues, high \in HighValues :
          dCall' = <<[fn |-> "my_dice_metric_hemp",
                      floats |-> <<low, high>>,
                      skip_background |-> TRUE,
                      result |-> my_dice_metric_hemp(FloatOf(dMsk, low, high),
                                                     FloatOf(dPred, low, high))]>>
    /\ UNCHANGED <<dMsk, dPred>>
    /\ UNCHANGED <<sdVars, modelVars, cropVars, pipeVars, fscoreVars>>

\* my_dice_metric_all(label, pred) on float tensors that are above 0.5 exactly
\* where msk and pred are true.
DiceMetricAllCall ==
    /\ dCall = <<>>
    /\ \E low \in LowValues, high \in HighValues :
          dCall' = <<[fn |-> "my_dice_metric_all",
                      floats |-> <<low, high>>,
                      skip_background |-> FALSE,
                      result |-> my_dice_metric_all(FloatOf(dMsk, low, high),
                                                    FloatOf(dPred, low, high))]>>
    /\ UNCHANGED <<dMsk, dPred>>
    /\ UNCHANGED <<sdVars, modelVars, cropVars, pipeVars, fscoreVars>>

NextDice ==
    \/ DiceSetMsk
    \/ DiceSetPred
    \/ DiceCall
    \/ DiceMetricHempCall
    \/ DiceMetricAllCall

SpecDice == InitDice /\ [][NextDice]_vars

\* The channels a call scores.
Scored(skip) == IF skip THEN {0, 1} ELSE 0..(dMsk.shape.c - 1)

SampleHasTrue(t, b, channels) ==
    \E i \in DOMAIN t.at : i[1] = b /\ i[4] \in channels /\ t.at[i]

Disjoint(t, u) == \A i \in DOMAIN t.at : ~(t.at[i] /\ u.at[i])

One == [n |-> 1, d |-> 1, e |-> 0]
Zero == [n |-> 0, d |-> 1, e |-> 0]

\* C3 as stated: a mask with at least one true pixel, scored against itself,
\* gives 1.0 (for every batch size and for both values of skip_background).
C3_SelfScoreIsOne ==
    (dCall # <<>> /\ dMsk = dPred /\ TrueCount(dMsk) >= 1)
        => dCall[1].result = One

\* C3 amended: a mask scored against itself gives 1.0 when every sample of the
\* batch has at least one true pixel in the scored channels; two disjoint
\* non-empty masks give 0.0; two all-false masks give the finite value 0.0
\* (0 over eps), not NaN.
C3_DiceSpecialCases ==
    dCall # <<>> =>
        /\ (dMsk = dPred /\ \A b \in 0..(dMsk.shape.b - 1) :
                               SampleHasTrue(dMsk, b, Scored(dCall[1].skip_background)))
              => dCall[1].result = One
        /\ (Disjoint(dMsk, dPred) /\ TrueCount(dMsk) >= 1 /\ TrueCount(dPred) >= 1)
              => dCall[1].result = Zero
        /\ (TrueCount(dMsk) = 0 /\ TrueCount(dPred) = 0)
              => dCall[1].result = Zero

\* A batch of two identical non-empty samples was scored against itself
\* without the background channel.
C3_Witness ==
    /\ dCall # <<>>
    /\ dCall[1].skip_background
    /\ dMsk.shape.b = 2
    /\ dMsk = dPred
    /\ \A b \in 0..1 : SampleHasTrue(dMsk, b, {0, 1})
    /\ dCall[1].result = One

\* The true cells of t in sample b and in the given channels.
TrueCells(t, b, channels) ==
    {i \in DOMAIN t.at : i[1] = b /\ i[4] \in channels /\ t.at[i]}

\* 2 |A n B| / (|A| + |B|), and 0 when A and B are both empty.
Overlap(A, B) ==
    IF Cardinality(A) + Cardinality(B) = 0 THEN RatInt(0)
    ELSE Rat(2 * Cardinality(A \cap B), Cardinality(A) + Cardinality(B))

RECURSIVE RatSumOf(_, _, _)
\* The sum of Op(x, y) over the pairs <<x, y>> of S.
RatSumOf(Op(_, _), S, acc) ==
    IF S = {} THEN acc
    ELSE LET p == CHOOSE q \in S : TRUE
         IN  RatSumOf(Op, S \ {p}, RatAdd(acc, Op(p[1], p[2])))

\* The ratio of sample b pooled over the channels the call scores.
PooledOverlap(b, c) ==
    Overlap(TrueCells(dMsk, b, Scored(dCall[1].skip_background)),
            TrueCells(dPred, b, Scored(dCall[1].skip_background)))

\* The ratio of sample b in channel c alone.
ChannelOverlap(b, c) == Overlap(TrueCells(dMsk, b, {c}), TrueCells(dPred, b, {c}))

Batches == 0..(dMsk.shape.b - 1)

\* C11 as stated, the ratio taken per sample and per selected channel: the
\* result is the mean, over the samples and the selected channels, of
\* 2|A n B| / (|A| + |B|) of that sample in that channel.
C11_PerChannelRatio ==
    dCall # <<>> =>
        LET channels == Scored(dCall[1].skip_background)
        IN  /\ dCall[1].result.e = 0
            /\ [n |-> dCall[1].result.n, d |-> dCall[1].result.d]
                  = RatDiv(RatSumOf(ChannelOverlap, Batches \X channels, RatInt(0)),
                           RatInt(Cardinality(Batches) * Cardinality(channels)))

\* C11 amended: the result is the mean over the samples of one ratio per
\* sample, 2|A n B| / (|A| + |B|) with A and B the sample's true pixels of all
\* the selected channels together (0 when there is none); the selected
\* channels are 0 and 1 for my_dice_metric_hemp and when skip_background is
\* true, all the channels for my_dice_metric_all and when it is false.
C11_PooledRatio ==
    dCall # <<>> =>
        /\ dCall[1].fn = "my_dice_metric_hemp" => dCall[1].skip_background
        /\ dCall[1].fn = "my_dice_metric_all" => ~dCall[1].skip_background
        /\ dCall[1].result.e = 0
        /\ [n |-> dCall[1].result.n, d |-> dCall[1].result.d]
              = RatDiv(RatSumOf(PooledOverlap, Batches \X {0}, RatInt(0)),
                       RatInt(Cardinality(Batches)))

\* my_dice_metric_hemp scored 2/3 on a sample whose label is 0.5 where the
\* class is off and which has a true background pixel.
C11_Witness ==
    /\ dCall # <<>>
    /\ dCall[1].fn = "my_dice_metric_hemp"
    /\ dCall[1].floats = <<Rat(1, 2), Rat(3, 4)>>
    /\ \E i \in DOMAIN dMsk.at : i[4] = 2 /\ dMsk.at[i]
    /\ dCall[1].result = [n |-> 2, d |-> 3, e |-> 0]

(***************************************************************************)
(* create_backbone and segmentation_model_func (lines 263-320).            *)
(* A tensor is [h, w, conv]: its spatial size, and the filters of the      *)
(* convolution of this function that produced it (0: none did; it is a     *)
(* backbone output or a concatenation, whose channels the decoder does not *)
(* read).                                                                  *)
(***************************************************************************)
IMG_WIDTH == 384
IMG_HEIGHT == 384
MaxOutputChannels == 3

BACKBONE_LAYER_NAMES ==
    [vgg19 |-> <<"block2_conv2", "block3_conv4", "block4_conv4", "block5_conv4",
                 "block5_pool">>,
     resnet50 |-> <<"conv1_relu", "conv2_block3_out", "conv3_block4_out",
                    "conv4_block6_out", "conv5_block3_out">>,
     resnet50v2 |-> <<"conv1_conv", "conv2_block3_1_relu", "conv3_block4_1_relu",
                      "conv4_block6_1_relu", "post_relu">>,
     resnet101 |-> <<"conv1_relu", "conv2_block3_out", "conv3_block4_out",
                     "conv4_block6_out", "conv5_block3_out">>,
     mobilenetv2 |-> <<"block_1_expand_relu", "block_3_expand_relu",
                       "block_6_expand_relu", "block_13_expand_relu",
                       "block_16_project">>]

\* list(BACKBONE_LAYER_NAMES.keys()): the keys in the order the table is written.
BackboneKeyList == <<"vgg19", "resnet50", "resnet50v2", "resnet101", "mobilenetv2">>

\* The names a caller may pass: the table's, and some that are not in it.
BackboneNames ==
    {"vgg19", "resnet50", "resnet50v2", "resnet101", "mobilenetv2",
     "vgg16", "VGG19", "resnet", ""}

\* The if/elif chain with the resnet101 branch left out.
ApplicationOfNoResnet101(name) ==
    CASE name = "vgg19" -> <<"VGG19">>
      [] name = "resnet50" -> <<"ResNet50">>
      [] name = "resnet50v2" -> <<"ResNet50V2">>
      [] name = "mobilenetv2" -> <<"MobileNetV2">>
      [] OTHER -> <<>>

\* The if/elif chain of create_backbone: the application built for a name,
\* <<>> when the chain falls through to its else branch.
ApplicationOf(name) ==
    CASE name = "vgg19" -> <<"VGG19">>
      [] name = "resnet50" -> <<"ResNet50">>
      [] name = "resnet50v2" -> <<"ResNet50V2">>
      [] name = "mobilenetv2" -> <<"MobileNetV2">>
      [] name = "resnet101" -> <<"ResNet101">>
      [] OTHER -> <<>>

\* create_backbone: [ok, backbone] or [ok, error].
create_backbone(name, set_trainable) ==
    IF ApplicationOf(name) # <<>>
    THEN [ok |-> TRUE,
          value |-> [application |-> ApplicationOf(name)[1],
                     input_shape |-> <<IMG_HEIGHT, IMG_WIDTH, 3>>,
                     include_top |-> FALSE,
                     trainable |-> set_trainable]]
    ELSE [ok |-> FALSE,
          value |-> [kind |-> "ValueError", name |-> name, names |-> BackboneKeyList]]

RECURSIVE Pow2(_)
Pow2(k) == IF k = 0 THEN 1 ELSE 2 * Pow2(k - 1)

\* down_stack.get_layer(BACKBONE_LAYER_NAMES[backbone_name][i]).output, i from 0:
\* the endpoint at 1/2, 1/4, 1/8, 1/16, 1/32 of the backbone's input.
SkipOutput(backbone, i) ==
    [h |-> backbone.input_shape[1] \div Pow2(i + 1),
     w |-> backbone.input_shape[2] \div Pow2(i + 1),
     conv |-> 0]

UpSampling2D(x, size) == [x EXCEPT !.h = x.h * size, !.w = x.w * size]
\* Conv2D(filters, size, padding='same'): the spatial size is kept.
Conv2D(x, filters) == [x EXCEPT !.conv = filters]

\* simple_upblock: UpSampling2D(2), then twice Conv2D / BatchNormalization / ReLU.
simple_upblock(input_layer, filters) ==
    Conv2D(Conv2D(UpSampling2D(input_layer, 2), filters), filters)

Reversed(s) == [i \in 1..Len(s) |-> s[Len(s) + 1 - i]]

\* zip(a, b): as long as the shorter of the two.
Zip(a, b) == [i \in 1..Min(Len(a), Len(b)) |-> <<a[i], b[i]>>]

up_stack_filters == <<64, 128, 256, 512>>

\* The loop's pairs with the filters taken in the order they are written.
UpStackPairsFiltersNotReversed(skips) ==
    Zip(Reversed(SubSeq(skips, 1, Len(skips) - 1)), up_stack_filters)

\* zip(reversed(skips[:-1]), reversed(up_stack_filters))
UpStackPairs(skips) ==
    Zip(Reversed(SubSeq(skips, 1, Len(skips) - 1)), Reversed(up_stack_filters))

InitModel ==
    /\ FScoreIdle
    /\ PipeIdle
    /\ StepDecayIdle
    /\ DiceIdle
    /\ CropIdle
    /\ \E name \in BackboneNames, ch \in 1..MaxOutputChannels, tr \in BOOLEAN :
          mArgs = [output_channels |-> ch, backbone_name |-> name,
                   backbone_trainable |-> tr]
    /\ mPc = "create_backbone"
    /\ mBackbone = <<>>
    /\ mSkips = <<>>
    /\ mX = <<>>
    /\ mPairs = <<>>
    /\ mConcats = <<>>
    /\ mErr = <<>>

\* Line 296: down_stack = create_backbone(...); its ValueError propagates.
ModelCreateBackbone ==
    /\ mPc = "create_backbone"
    /\ LET r == create_backbone(mArgs.backbone_name, mArgs.backbone_trainable)
       IN  IF r.ok
           THEN /\ mBackbone' = <<r.value>>
                /\ mPc' = "skips"
                /\ UNCHANGED mErr
           ELSE /\ mErr' = <<r.value>>
                /\ mPc' = "raised"
                /\ UNCHANGED mBackbone
    /\ UNCHANGED <<mArgs, mSkips, mX, mPairs, mConcats>>
    /\ UNCHANGED <<sdVars, diceVars, cropVars, pipeVars, fscoreVars>>

\* Lines 298-308: the five lookups in BACKBONE_LAYER_NAMES (a KeyError for a
\* name that is no key), the seed x = skips[-1] and the loop's pairs.
ModelLookupSkips ==
    /\ mPc = "skips"
    /\ IF mArgs.backbone_name \in DOMAIN BACKBONE_LAYER_NAMES
       THEN LET skips == [i \in 1..5 |->
                            [index |-> i - 1,
                             layer |-> BACKBONE_LAYER_NAMES[mArgs.backbone_name][i],
                             output |-> SkipOutput(mBackbone[1], i - 1)]]
            IN  /\ mSkips' = skips
                /\ mX' = <<[seed |-> skips[Len(skips)].index,
                            tensor |-> skips[Len(skips)].output]>>
                /\ mPairs' = UpStackPairs(skips)
                /\ mPc' = "decoder"
                /\ UNCHANGED mErr
       ELSE /\ mErr' = <<[kind |-> "KeyError", name |-> mArgs.backbone_name,
                          names |-> <<>>]>>
            /\ mPc' = "raised"
            /\ UNCHANGED <<mSkips, mX, mPairs>>
    /\ UNCHANGED <<mArgs, mBackbone, mConcats>>
    /\ UNCHANGED <<sdVars, diceVars, cropVars, pipeVars, fscoreVars>>

\* Lines 311-313: one pass of the loop; Concatenate raises a ValueError when
\* the two inputs differ in spatial size.
ModelUpBlock ==
    /\ mPc = "decoder"
    /\ mPairs # <<>>
    /\ LET skip == Head(mPairs)[1]
           filters == Head(mPairs)[2]
           x == simple_upblock(mX[1].tensor, filters)
       IN  IF x.h = skip.output.h /\ x.w = skip.output.w
           THEN /\ mConcats' = Append(mConcats,
                                      [filters |-> x.conv, skip |-> skip.index,
                                       layer |-> skip.layer,
                                       x_size |-> <<x.h, x.w>>,
                                       skip_size |-> <<skip.output.h, skip.output.w>>])
                /\ mX' = <<[mX[1] EXCEPT !.tensor = [x EXCEPT !.conv = 0]]>>
                /\ mPairs' = Tail(mPairs)
                /\ UNCHANGED <<mPc, mErr>>
           ELSE /\ mErr' = <<[kind |-> "ValueError", name |-> "Concatenate",
                              names |-> <<>>]>>
                /\ mPc' = "raised"
                /\ UNCHANGED <<mConcats, mX, mPairs>>
    /\ UNCHANGED <<mArgs, mBackbone, mSkips>>
    /\ UNCHANGED <<sdVars, diceVars, cropVars, pipeVars, fscoreVars>>

\* Lines 316-320: the last upsampling, Conv2D(32, 3) and the 1x1 softmax
\* convolution with output_channels filters.
ModelFinal ==
    /\ mPc = "decoder"
    /\ mPairs = <<>>
    /\ mX' = <<[mX[1] EXCEPT !.tensor =
                  Conv2D(Conv2D(UpSampling2D(mX[1].tensor, 2), 32),
                         mArgs.output_channels)]>>
    /\ mPc' = "done"
    /\ UNCHANGED <<mArgs, mBackbone, mSkips, mPairs, mConcats, mErr>>
    /\ UNCHANGED <<sdVars, diceVars, cropVars, pipeVars, fscoreVars>>

NextModel == ModelCreateBackbone \/ ModelLookupSkips \/ ModelUpBlock \/ ModelFinal

SpecModel == InitModel /\ [][NextModel]_vars

FiveBackbones == {"vgg19", "resnet50", "resnet50v2", "resnet101", "mobilenetv2"}

SeqToSet(s) == {s[i] : i \in DOMAIN s}

\* C4: a name that is not one of the five makes create_backbone raise a
\* ValueError that names it and lists exactly the five names, and
\* segmentation_model_func stops there, before any skip lookup; none of the
\* five names raises; the accepted names are the keys of BACKBONE_LAYER_NAMES.
C4_UnknownBackboneRaises ==
    /\ DOMAIN BACKBONE_LAYER_NAMES = FiveBackbones
    /\ mPc # "create_backbone" =>
          IF mArgs.backbone_name \in FiveBackbones
          THEN mErr = <<>> /\ mBackbone # <<>>
          ELSE /\ mPc = "raised"
               /\ mErr # <<>>
               /\ mErr[1].kind = "ValueError"
               /\ mErr[1].name = mArgs.backbone_name
               /\ Len(mErr[1].names) = 5
               /\ SeqToSet(mErr[1].names) = FiveBackbones
               /\ mBackbone = <<>>
               /\ mSkips = <<>>

\* An unrecognized name was passed and the call has raised.
C4_Witness ==
    /\ mPc = "raised"
    /\ mArgs.backbone_name = "vgg16"
    /\ mErr # <<>>

\* C8: the decoder is seeded with skip endpoint 4; the up-blocks with 512,
\* 256, 128, 64 filters are concatenated with the skip endpoints 3, 2, 1, 0 in
\* that order, the two inputs of every concatenation having the same spatial
\* size; the finished model's output is 384 x 384 x output_channels.
C8_DecoderPairing ==
    /\ mX # <<>> => mX[1].seed = 4
    /\ \A i \in DOMAIN mConcats :
          /\ mConcats[i].filters = <<512, 256, 128, 64>>[i]
          /\ mConcats[i].skip = 4 - i
          /\ mConcats[i].layer = BACKBONE_LAYER_NAMES[mArgs.backbone_name][5 - i]
          /\ mConcats[i].x_size = mConcats[i].skip_size
    /\ mPc = "decoder" => Len(mConcats) + Len(mPairs) = 4
    /\ mArgs.backbone_name \in FiveBackbones => mPc # "raised"
    /\ mPc = "done" =>
          /\ Len(mConcats) = 4
          /\ mX[1].tensor = [h |-> 384, w |-> 384, conv |-> mArgs.output_channels]

\* A model was finished for resnet50v2 with three output channels.
C8_Witness ==
    /\ mPc = "done"
    /\ mArgs.backbone_name = "resnet50v2"
    /\ mArgs.output_channels = 3
    /\ Len(mConcats) = 4

(***************************************************************************)
(* central_crop (lines 154-166) and random_crop (lines 126-137).           *)
(* An image or mask tensor [H, W, C] is [src, rows, cols, chans]: pixel    *)
(* (r, c), channel k of the tensor is pixel (rows[r+1], cols[c+1]),        *)
(* channel chans[k+1] of the decoded file src.                             *)
(***************************************************************************)
CROP_BORDER == 64
SizeSlack == 2

\* Sizes around the two sizes the crops decide on.
CropSizes ==
    ((2 * CROP_BORDER - SizeSlack)..(2 * CROP_BORDER + SizeSlack))
        \cup ((IMG_HEIGHT - 1)..(IMG_HEIGHT + SizeSlack))

Iota(n) == [i \in 1..n |-> i - 1]

Decoded(src, h, w, c) == [src |-> src, rows |-> Iota(h), cols |-> Iota(w), chans |-> Iota(c)]

\* s[start:stop] of Python: a negative index counts from the end, and both
\* ends are clipped to the sequence.
PyIndex(i, n) == IF i < 0 THEN Max(i + n, 0) ELSE Min(i, n)
PySlice(s, start, stop) ==
    SubSeq(s, PyIndex(start, Len(s)) + 1, PyIndex(stop, Len(s)))

\* central_crop slicing the rows only.
CentralCropRowsOnly(image, mask, image_path) ==
    [op |-> "central_crop", ok |-> TRUE,
     image |-> [image EXCEPT !.rows = PySlice(@, CROP_BORDER, -CROP_BORDER)],
     mask |-> [mask EXCEPT !.rows = PySlice(@, CROP_BORDER, -CROP_BORDER)],
     path |-> image_path]

\* image[64:-64, 64:-64], mask[64:-64, 64:-64]
central_crop(image, mask, image_path) ==
    [op |-> "central_crop", ok |-> TRUE,
     image |-> [image EXCEPT !.rows = PySlice(@, CROP_BORDER, -CROP_BORDER),
                             !.cols = PySlice(@, CROP_BORDER, -CROP_BORDER)],
     mask |-> [mask EXCEPT !.rows = PySlice(@, CROP_BORDER, -CROP_BORDER),
                           !.cols = PySlice(@, CROP_BORDER, -CROP_BORDER)],
     path |-> image_path]

Shape3(t) == <<Len(t.rows), Len(t.cols), Len(t.chans)>>

\* tf.slice of one [H, W, C] tensor at (row, column, channel) offset, to size.
Window(t, offset, size) ==
    [t EXCEPT !.rows = SubSeq(@, offset[1] + 1, offset[1] + size[1]),
              !.cols = SubSeq(@, offset[2] + 1, offset[2] + size[2]),
              !.chans = SubSeq(@, offset[3] + 1, offset[3] + size[3])]

CropFailed(image, mask, image_path) ==
    [op |-> "random_crop", ok |-> FALSE, image |-> image, mask |-> mask,
     path |-> image_path]

\* The offsets tf.image.random_crop may draw for a value of `shape` and a crop
\* of `size`: in every dimension, uniform in 0 .. shape - size.
CropOffsets(shape, size) ==
    {o \in (0..(shape[1] - size[1])) \X (0..(shape[2] - size[2]))
            \X (0..(shape[3] - size[3])) \X (0..(shape[4] - size[4])) : TRUE}

\* random_crop with the image and the mask cropped by two separate draws.
RandomCropSeparately(image, mask, image_path) ==
    IF Shape3(image) # Shape3(mask)
       \/ \E d \in 1..3 : Shape3(image)[d] < <<IMG_HEIGHT, IMG_WIDTH, 3>>[d]
    THEN {CropFailed(image, mask, image_path)}
    ELSE LET size == <<1, IMG_HEIGHT, IMG_WIDTH, 3>>
             shape == <<1>> \o Shape3(image)
         IN  {[op |-> "random_crop", ok |-> TRUE,
               image |-> Window(image, <<o[2], o[3], o[4]>>, Tail(size)),
               mask |-> Window(mask, <<q[2], q[3], q[4]>>, Tail(size)),
               path |-> image_path]
              : o \in CropOffsets(shape, size), q \in CropOffsets(shape, size)}

\* random_crop: tf.stack([image, mask], axis=0) needs two equal shapes;
\* tf.image.random_crop(stacked, [2, IMG_HEIGHT, IMG_WIDTH, 3]) needs
\* shape >= size in every dimension, draws one offset for the whole stack and
\* slices it; cropped_image[0] and cropped_image[1] are returned.
\* The set of the possible results.
random_crop(image, mask, image_path) ==
    IF Shape3(image) # Shape3(mask)
       \/ \E d \in 1..3 : Shape3(image)[d] < <<IMG_HEIGHT, IMG_WIDTH, 3>>[d]
    THEN {CropFailed(image, mask, image_path)}
    ELSE LET stacked_image == <<image, mask>>
             size == <<2, IMG_HEIGHT, IMG_WIDTH, 3>>
             shape == <<Len(stacked_image)>> \o Shape3(image)
         IN  {LET cropped_image ==
                     [i \in 1..size[1] |->
                         Window(stacked_image[o[1] + i], <<o[2], o[3], o[4]>>, Tail(size))]
              IN  [op |-> "random_crop", ok |-> TRUE,
                   image |-> cropped_image[1],
                   mask |-> cropped_image[2],
                   path |-> image_path]
              : o \in CropOffsets(shape, size)}

ImagePaths == {"img/a.png", "img/b.png"}

InitCrop ==
    /\ FScoreIdle
    /\ PipeIdle
    /\ StepDecayIdle
    /\ DiceIdle
    /\ ModelIdle
    /\ \E h \in CropSizes, w \in CropSizes, ci \in {1, 3}, cm \in {1, 3},
          path \in ImagePaths :
          cSample = [image |-> Decoded("image", h, w, ci),
                     mask |-> Decoded("mask", h, w, cm),
                     path |-> path]
    /\ cOut = <<>>

\* The map step central_crop on the sample.
CropCentral ==
    /\ cOut = <<>>
    /\ cOut' = <<central_crop(cSample.image, cSample.mask, cSample.path)>>
    /\ UNCHANGED cSample
    /\ UNCHANGED <<sdVars, diceVars, modelVars, pipeVars, fscoreVars>>

\* The map step random_crop on the sample.
CropRandom ==
    /\ cOut = <<>>
    /\ \E r \in random_crop(cSample.image, cSample.mask, cSample.path) :
          cOut' = <<r>>
    /\ UNCHANGED cSample
    /\ UNCHANGED <<sdVars, diceVars, modelVars, pipeVars, fscoreVars>>

NextCrop == CropCentral \/ CropRandom

SpecCrop == InitCrop /\ [][NextCrop]_vars

InH == Len(cSample.image.rows)
InW == Len(cSample.image.cols)

\* t is the window of the decoded file src at (row0, col0), of size h x w, with
\* the channels chans.
IsWindowOf(t, src, row0, col0, h, w, chans) ==
    /\ t.src = src
    /\ t.rows = [i \in 1..h |-> row0 + i - 1]
    /\ t.cols = [j \in 1..w |-> col0 + j - 1]
    /\ t.chans = chans

CentralCropRemoves64(out) ==
    /\ IsWindowOf(out.image, "image", 64, 64, InH - 128, InW - 128,
                  cSample.image.chans)
    /\ IsWindowOf(out.mask, "mask", 64, 64, InH - 128, InW - 128,
                  cSample.mask.chans)
    /\ out.path = cSample.path

\* C5 as stated: for any H x W, central_crop returns (H-128) x (W-128) tensors
\* whose pixel (r, c) is input pixel (r+64, c+64), channels and path unchanged.
C5_CentralCropAnySize ==
    (cOut # <<>> /\ cOut[1].op = "central_crop")
        => (/\ Len(cOut[1].image.rows) = InH - 128
            /\ Len(cOut[1].image.cols) = InW - 128
            /\ CentralCropRemoves64(cOut[1]))

\* C5 amended: for H >= 128 and W >= 128, central_crop returns
\* (H-128) x (W-128) tensors whose pixel (r, c) is input pixel (r+64, c+64),
\* channels and path unchanged.
C5_CentralCropFrom128 ==
    (cOut # <<>> /\ cOut[1].op = "central_crop" /\ InH >= 128 /\ InW >= 128)
        => (/\ Len(cOut[1].image.rows) = InH - 128
            /\ Len(cOut[1].mask.cols) = InW - 128
            /\ CentralCropRemoves64(cOut[1]))

\* A 129 x 130 pair, the mask with one channel, was cropped to 1 x 2.
C5_Witness ==
    /\ cOut # <<>>
    /\ cOut[1].op = "central_crop"
    /\ InH = 129
    /\ InW = 130
    /\ Len(cSample.mask.chans) = 1
    /\ Shape3(cOut[1].image) = <<1, 2, Len(cSample.image.chans)>>

\* C6: for an H x W x 3 pair with H, W >= 384, random_crop returns a
\* 384 x 384 x 3 image and mask that are the windows of the input image and of
\* the input mask at one (row, column) offset within 0..H-384, 0..W-384.
C6_JointCrop ==
    (/\ cOut # <<>>
     /\ cOut[1].op = "random_crop"
     /\ InH >= 384
     /\ InW >= 384
     /\ Shape3(cSample.image) = Shape3(cSample.mask)
     /\ Len(cSample.image.chans) = 3)
        => /\ cOut[1].ok
           /\ cOut[1].path = cSample.path
           /\ \E row \in 0..(InH - 384), col \in 0..(InW - 384) :
                 /\ IsWindowOf(cOut[1].image, "image", row, col, 384, 384, <<0, 1, 2>>)
                 /\ IsWindowOf(cOut[1].mask, "mask", row, col, 384, 384, <<0, 1, 2>>)

\* A 386 x 385 pair was cropped at a non-zero row and column offset.
C6_Witness ==
    /\ cOut # <<>>
    /\ cOut[1].op = "random_crop"
    /\ cOut[1].ok
    /\ InH = 386
    /\ InW = 385
    /\ cOut[1].image.rows[1] = 2
    /\ cOut[1].mask.cols[1] = 1

(***************************************************************************)
(* create_train_datasets (lines 191-226).  A file is its position in the   *)
(* listing (list_files(shuffle=False) keeps the listing's order).  An      *)
(* element is [image, mask, steps]: the listing positions of the image and *)
(* mask files it came from and the pipeline steps applied to it.  A map    *)
(* keeps the order of its input, so a map stage is a FIFO.                 *)
(***************************************************************************)
MaxFiles == 3
MaxBuffer == 2
MaxBatchSize == 2

\* The map steps of the three splits (lines 207, 215, 223).
TrainFuncsFlipFirst ==
    <<"process_path", "random_crop", "random_flip", "random_brightness",
      "add_gaussian_noise">>

TrainFuncs ==
    <<"process_path", "random_crop", "random_brightness", "random_flip",
      "add_gaussian_noise">>

ValFuncs == <<"process_path", "central_crop">>

TestFuncs == <<"process_path">>

drop_remainder_true == TRUE

\* batch(batch_size, drop_remainder=False)
drop_remainder == FALSE

\* The pipeline create_train_datasets builds for a split.
Pipeline(split) ==
    CASE split = "train" -> [shuffle |-> TRUE, funcs |-> TrainFuncs]
      [] split = "val" -> [shuffle |-> FALSE, funcs |-> ValFuncs]
      [] split = "test" -> [shuffle |-> FALSE, funcs |-> TestFuncs]

Funcs == Pipeline(pArgs.split).funcs
Shuffles == Pipeline(pArgs.split).shuffle

\* tf.data.Dataset.zip((images, masks)) of the two listings.
Zipped == Zip(Iota(pArgs.n_images), Iota(pArgs.n_masks))

InitPipe ==
    /\ FScoreIdle
    /\ StepDecayIdle
    /\ DiceIdle
    /\ ModelIdle
    /\ CropIdle
    /\ \E split \in {"train", "val", "test"}, ni \in 0..MaxFiles, nm \in 0..MaxFiles,
          buffer \in 1..MaxBuffer, batch \in 1..MaxBatchSize :
          /\ pArgs = [split |-> split, n_images |-> ni, n_masks |-> nm,
                      buffer_size |-> buffer, batch_size |-> batch]
          /\ pQueues = [k \in 1..(Len(Pipeline(split).funcs) + 1) |-> <<>>]
    /\ pNext = 0
    /\ pBuffer = {}
    /\ pBatch = <<>>
    /\ pBatches = <<>>
    /\ pDone = FALSE

NextPair == [image |-> Zipped[pNext + 1][1], mask |-> Zipped[pNext + 1][2], steps |-> <<>>]

\* shuffle(buffer_size) takes the next pair of the zip into its buffer.
PipeShuffleFill ==
    /\ Shuffles
    /\ pNext < Len(Zipped)
    /\ Cardinality(pBuffer) < pArgs.buffer_size
    /\ pBuffer' = pBuffer \cup {NextPair}
    /\ pNext' = pNext + 1
    /\ UNCHANGED <<pArgs, pQueues, pBatch, pBatches, pDone>>
    /\ UNCHANGED <<sdVars, diceVars, modelVars, cropVars, fscoreVars>>

\* shuffle(buffer_size) emits an element of its buffer, picked at random, once
\* the buffer is full or the zip is exhausted.
PipeShuffleEmit ==
    /\ Shuffles
    /\ Cardinality(pBuffer) = pArgs.buffer_size \/ pNext = Len(Zipped)
    /\ \E e \in pBuffer :
          /\ pBuffer' = pBuffer \ {e}
          /\ pQueues' = [pQueues EXCEPT ![1] =
                            Append(@, [e EXCEPT !.steps = Append(@, "shuffle")])]
    /\ UNCHANGED <<pArgs, pNext, pBatch, pBatches, pDone>>
    /\ UNCHANGED <<sdVars, diceVars, modelVars, cropVars, fscoreVars>>

\* Without a shuffle the first map takes the next pair of the zip itself.
PipeZip ==
    /\ ~Shuffles
    /\ pNext < Len(Zipped)
    /\ pQueues' = [pQueues EXCEPT ![1] = Append(@, NextPair)]
    /\ pNext' = pNext + 1
    /\ UNCHANGED <<pArgs, pBuffer, pBatch, pBatches, pDone>>
    /\ UNCHANGED <<sdVars, diceVars, modelVars, cropVars, fscoreVars>>

\* The k-th map of the split applies its function to its next input element.
PipeMap ==
    /\ \E k \in 1..Len(Funcs) :
          /\ pQueues[k] # <<>>
          /\ pQueues' = [pQueues EXCEPT
                            ![k] = Tail(@),
                            ![k + 1] = Append(@, [Head(pQueues[k]) EXCEPT
                                                     !.steps = Append(@, Funcs[k])])]
    /\ UNCHANGED <<pArgs, pNext, pBuffer, pBatch, pBatches, pDone>>
    /\ UNCHANGED <<sdVars, diceVars, modelVars, cropVars, fscoreVars>>

\* batch(batch_size) takes the next element, and emits the batch when it holds
\* batch_size elements.
PipeBatch ==
    /\ pQueues[Len(pQueues)] # <<>>
    /\ LET filled == Append(pBatch, Head(pQueues[Len(pQueues)]))
       IN  IF Len(filled) = pArgs.batch_size
           THEN pBatch' = <<>> /\ pBatches' = Append(pBatches, filled)
           ELSE pBatch' = filled /\ UNCHANGED pBatches
    /\ pQueues' = [pQueues EXCEPT ![Len(pQueues)] = Tail(@)]
    /\ UNCHANGED <<pArgs, pNext, pBuffer, pDone>>
    /\ UNCHANGED <<sdVars, diceVars, modelVars, cropVars, fscoreVars>>

\* The end of the input reaches batch: the batch being filled is emitted if it
\* holds an element and drop_remainder is False.
PipeEnd ==
    /\ ~pDone
    /\ pNext = Len(Zipped)
    /\ pBuffer = {}
    /\ \A k \in DOMAIN pQueues : pQueues[k] = <<>>
    /\ pBatches' = IF pBatch # <<>> /\ ~drop_remainder
                   THEN Append(pBatches, pBatch) ELSE pBatches
    /\ pBatch' = <<>>
    /\ pDone' = TRUE
    /\ UNCHANGED <<pArgs, pNext, pBuffer, pQueues>>
    /\ UNCHANGED <<sdVars, diceVars, modelVars, cropVars, fscoreVars>>

Next ==
    \/ PipeShuffleFill
    \/ PipeShuffleEmit
    \/ PipeZip
    \/ PipeMap
    \/ PipeBatch
    \/ PipeEnd

Spec == InitPipe /\ [][Next]_vars

RECURSIVE Flatten(_)
Flatten(ss) == IF ss = <<>> THEN <<>> ELSE Head(ss) \o Flatten(Tail(ss))

\* The steps a sample of the split must have gone through, in order.
ExpectedSteps(split) ==
    CASE split = "train" ->
            <<"shuffle", "process_path", "random_crop", "random_brightness",
              "random_flip", "add_gaussian_noise">>
      [] split = "val" -> <<"process_path", "central_crop">>
      [] split = "test" -> <<"process_path">>

IsPrefix(s, t) == Len(s) <= Len(t) /\ s = SubSeq(t, 1, Len(s))

\* Every element the pipeline holds, wherever it is.
InFlight == pBuffer \cup SeqToSet(Flatten(pQueues)) \cup SeqToSet(pBatch)

\* C7: every sample a split emits has gone through exactly the split's steps,
\* once each and in order: train shuffle, process_path, random_crop,
\* random_brightness, random_flip, add_gaussian_noise; val process_path,
\* central_crop; test process_path; an element on its way has gone through a
\* prefix of them, and only the training split shuffles.
C7_StepOrder ==
    /\ \A e \in SeqToSet(Flatten(pBatches)) \cup SeqToSet(pBatch) :
          e.steps = ExpectedSteps(pArgs.split)
    /\ \A e \in InFlight : IsPrefix(e.steps, ExpectedSteps(pArgs.split))
    /\ \A k \in DOMAIN pQueues : \A i \in DOMAIN pQueues[k] :
          Len(pQueues[k][i].steps) = (k - 1) + (IF pArgs.split = "train" THEN 1 ELSE 0)

\* The training split has emitted a batch of two samples.
C7_Witness ==
    /\ pArgs.split = "train"
    /\ pBatches # <<>>
    /\ Len(pBatches[1]) = 2
    /\ Len(pBatches[1][2].steps) = 6

CeilDiv(a, b) == (a + b - 1) \div b

\* C10: with n images and n masks, a full pass emits every position 0..n-1
\* exactly once, image i with mask i, in ceil(n / batch_size) batches of
\* batch_size samples, but for the last, which has 1..batch_size; val and test
\* samples come in listing order.  No element ever pairs image i with another
\* mask.
C10_EveryPairOnce ==
    pArgs.n_images = pArgs.n_masks =>
        /\ \A e \in InFlight \cup SeqToSet(Flatten(pBatches)) : e.image = e.mask
        /\ pDone =>
              LET n == pArgs.n_images
                  out == Flatten(pBatches)
              IN  /\ Len(out) = n
                  /\ {out[i].image : i \in DOMAIN out} = 0..(n - 1)
                  /\ Len(pBatches) = CeilDiv(n, pArgs.batch_size)
                  /\ \A b \in DOMAIN pBatches :
                        /\ b < Len(pBatches) => Len(pBatches[b]) = pArgs.batch_size
                        /\ Len(pBatches[b]) \in 1..pArgs.batch_size
                  /\ pArgs.split # "train" =>
                        \A i \in DOMAIN out : out[i].image = i - 1

\* A training pass over three pairs ended with a full batch and a batch of
\* one, the samples not in listing order.
C10_Witness ==
    /\ pDone
    /\ pArgs.split = "train"
    /\ pArgs.n_images = 3
    /\ pArgs.n_masks = 3
    /\ Len(pBatches) = 2
    /\ Len(pBatches[2]) = 1
    /\ pBatches[1][1].image = 1
    /\ pBatches[1][1].mask = 1

(***************************************************************************)
(* f_score, average, round_if_needed, get_reduce_axes, dice_loss           *)
(* (lines 418-511).  gt and pr are tensors [shape, at] of rationals; the   *)
(* data format is channels_last, class_indexes is None.                    *)
(***************************************************************************)
MaxNonzero == 2

\* One image of one or two pixels, or two images of one pixel; 3 classes.
FScoreShapes ==
    {[b |-> 1, h |-> 1, w |-> 1, c |-> 3],
     [b |-> 1, h |-> 1, w |-> 2, c |-> 3],
     [b |-> 2, h |-> 1, w |-> 1, c |-> 3]}

Half == Rat(1, 2)
PrValues == {Half, RatInt(1)}

RECURSIVE RatSum(_, _)
\* The sum of f over the set S of its arguments.
RatSum(f, S) ==
    IF S = {} THEN RatInt(0)
    ELSE LET x == CHOOSE y \in S : TRUE
         IN  RatAdd(f[x], RatSum(f, S \ {x}))

\* round_if_needed: cast(greater(x, threshold)) when a threshold is given.
round_if_needed(x, threshold) ==
    IF threshold # <<>>
    THEN [x EXCEPT !.at = [i \in DOMAIN x.at |->
                              IF RatGt(x.at[i], threshold[1]) THEN RatInt(1)
                              ELSE RatInt(0)]]
    ELSE x

\* get_reduce_axes: [1, 2], with 0 in front when not per_image.
get_reduce_axes(per_image) == IF per_image THEN <<1, 2>> ELSE <<0, 1, 2>>

\* backend.sum(x, axis=axes) for axes [1, 2] or [0, 1, 2]: the result is
\* indexed <<b, c>> when the batch axis is kept, <<c>> when it is reduced.
ReduceSum(x, axes) ==
    IF axes[1] = 0
    THEN [k \in {<<c>> : c \in 0..(x.shape.c - 1)} |->
             RatSum(x.at, {i \in DOMAIN x.at : i[4] = k[1]})]
    ELSE [k \in (0..(x.shape.b - 1)) \X (0..(x.shape.c - 1)) |->
             RatSum(x.at, {i \in DOMAIN x.at : i[1] = k[1] /\ i[4] = k[2]})]

\* class_weights[c] under broadcasting: a scalar weighs every class.
WeightAt(class_weights, c) ==
    IF Len(class_weights) = 1 THEN class_weights[1] ELSE class_weights[c + 1]

DiceWeights == <<Half, Half, RatInt(1)>>

\* backend.mean(x, axis=0) of x indexed <<b, c>>.
MeanAxis0(x) ==
    LET bs == {k[1] : k \in DOMAIN x}
    IN  [k \in {<<q[2]>> : q \in DOMAIN x} |->
            RatDiv(RatSum(x, {q \in DOMAIN x : q[2] = k[1]}),
                   RatInt(Cardinality(bs)))]

\* backend.mean(x) of x indexed <<c>>.
MeanAll(x) == RatDiv(RatSum(x, DOMAIN x), RatInt(Cardinality(DOMAIN x)))

\* average with the weights of dice_loss used whatever class_weights is.
AverageFixedWeights(x, per_image, class_weights) ==
    LET y == IF per_image THEN MeanAxis0(x) ELSE x
    IN  MeanAll([k \in DOMAIN y |-> RatMul(y[k], WeightAt(DiceWeights, k[1]))])

\* average: the mean over the batch when per_image, the class weights when
\* given, then the mean over the classes.
average(x, per_image, class_weights) ==
    LET y == IF per_image THEN MeanAxis0(x) ELSE x
        z == IF class_weights # <<>>
             THEN [k \in DOMAIN y |-> RatMul(y[k], WeightAt(class_weights, k[1]))]
             ELSE y
    IN  MeanAll(z)

Product(gt, pr) == [gt EXCEPT !.at = [i \in DOMAIN gt.at |-> RatMul(gt.at[i], pr.at[i])]]

f_score(gt, pr0, beta, class_weights, smooth, per_image, threshold) ==
    LET pr == round_if_needed(pr0, threshold)
        axes == get_reduce_axes(per_image)
        tp == ReduceSum(Product(gt, pr), axes)
        sum_pr == ReduceSum(pr, axes)
        sum_gt == ReduceSum(gt, axes)
        b2 == RatInt(beta * beta)
        score ==
            [k \in DOMAIN tp |->
                LET fp == RatSub(sum_pr[k], tp[k])
                    fn == RatSub(sum_gt[k], tp[k])
                    num == RatAdd(RatMul(RatInt(1 + beta * beta), tp[k]), smooth)
                IN  RatDiv(num, RatAdd(RatAdd(num, RatMul(b2, fn)), fp))]
    IN  average(score, per_image, class_weights)

\* dice_loss with the class weights [1, 1, 1].
DiceLossUnitWeights(gt, pr) ==
    RatSub(RatInt(1),
           f_score(gt, pr, 1, <<RatInt(1), RatInt(1), RatInt(1)>>, RatInt(1), FALSE, <<>>))

\* dice_loss: 1 - f_score(gt, pr, class_weights=[0.5, 0.5, 1.], smooth=1.0)
dice_loss(gt, pr) ==
    RatSub(RatInt(1), f_score(gt, pr, 1, DiceWeights, RatInt(1), FALSE, <<>>))

Zeros(shape) == [shape |-> shape, at |-> [i \in Indexes(shape) |-> RatInt(0)]]

NonzeroCount(t) == Cardinality({i \in DOMAIN t.at : t.at[i].n # 0})

\* The permutations of the three channels: channel k of the permuted tensor is
\* channel perm[k+1] of the tensor.
ChannelPerms ==
    {perm \in [1..3 -> 0..2] : \A c \in 0..2 : \E k \in 1..3 : perm[k] = c}

PermuteChannels(t, perm) ==
    [t EXCEPT !.at = [i \in DOMAIN t.at |-> t.at[<<i[1], i[2], i[3], perm[i[4] + 1]>>]]]

\* The settings of a call: uniform class weights only (the scalar default 1, or
\* a vector of equal weights).
FScoreSettings ==
    [beta : {1, 2}, smooth : {Half, RatInt(1)}, per_image : BOOLEAN,
     threshold : {<<>>, <<Half>>},
     class_weights : {<<RatInt(1)>>, <<Half, Half, Half>>}]

InitFScore ==
    /\ StepDecayIdle
    /\ DiceIdle
    /\ ModelIdle
    /\ CropIdle
    /\ PipeIdle
    /\ \E shape \in FScoreShapes :
          /\ fGt = Zeros(shape)
          /\ fPr = Zeros(shape)
    /\ fCall = <<>>

\* The caller's ground truth: one more pixel of a class.
FScoreSetGt ==
    /\ fCall = <<>>
    /\ NonzeroCount(fGt) + NonzeroCount(fPr) < MaxNonzero
    /\ \E i \in DOMAIN fGt.at :
          /\ fGt.at[i].n = 0
          /\ fGt' = [fGt EXCEPT !.at[i] = RatInt(1)]
    /\ UNCHANGED <<fPr, fCall>>
    /\ UNCHANGED <<sdVars, diceVars, modelVars, cropVars, pipeVars>>

\* The caller's prediction: one more non-zero probability.
FScoreSetPr ==
    /\ fCall = <<>>
    /\ NonzeroCount(fGt) + NonzeroCount(fPr) < MaxNonzero
    /\ \E i \in DOMAIN fPr.at, v \in PrValues :
          /\ fPr.at[i].n = 0
          /\ fPr' = [fPr EXCEPT !.at[i] = v]
    /\ UNCHANGED <<fGt, fCall>>
    /\ UNCHANGED <<sdVars, diceVars, modelVars, cropVars, pipeVars>>

\* f_score on (gt, pr), and on (gt, pr) with the channels of both permuted,
\* for every permutation.
FScoreCall ==
    /\ fCall = <<>>
    /\ \E a \in FScoreSettings :
          fCall' =
             <<[fn |-> "f_score",
                settings |-> <<a>>,
                result |-> f_score(fGt, fPr, a.beta, a.class_weights, a.smooth,
                                   a.per_image, a.threshold),
                permuted |->
                   [perm \in ChannelPerms |->
                       f_score(PermuteChannels(fGt, perm), PermuteChannels(fPr, perm),
                               a.beta, a.class_weights, a.smooth, a.per_image,
                               a.threshold)]]>>
    /\ UNCHANGED <<fGt, fPr>>
    /\ UNCHANGED <<sdVars, diceVars, modelVars, cropVars, pipeVars>>

\* dice_loss on (gt, pr), and on (gt, pr) with the channels of both permuted,
\* for every permutation.
DiceLossCall ==
    /\ fCall = <<>>
    /\ fCall' =
          <<[fn |-> "dice_loss",
             settings |-> <<>>,
             result |-> dice_loss(fGt, fPr),
             permuted |->
                [perm \in ChannelPerms |->
                    dice_loss(PermuteChannels(fGt, perm), PermuteChannels(fPr, perm))]]>>
    /\ UNCHANGED <<fGt, fPr>>
    /\ UNCHANGED <<sdVars, diceVars, modelVars, cropVars, pipeVars>>

NextFScore == FScoreSetGt \/ FScoreSetPr \/ FScoreCall \/ DiceLossCall

SpecFScore == InitFScore /\ [][NextFScore]_vars

\* C9 as stated: f_score with uniform class weights, and dice_loss, return
\* the same value for the inputs and for the inputs with their channels
\* permuted, whatever the permutation.
C9_PermutationInvariant ==
    fCall # <<>> =>
        \A perm \in ChannelPerms : fCall[1].permuted[perm] = fCall[1].result

\* C9 amended: f_score with uniform class weights returns the same value for
\* the inputs and for the inputs with their channels permuted, whatever the
\* permutation; dice_loss, whose weights [0.5, 0.5, 1.0] are not uniform, does
\* so for the permutations that leave channel 2 in place.
C9_PermutationInvariantUniform ==
    fCall # <<>> =>
        \A perm \in ChannelPerms :
           (fCall[1].fn = "f_score" \/ perm[3] = 2)
              => fCall[1].permuted[perm] = fCall[1].result

\* A per-image f_score call with beta 2 and a threshold on two images, one
\* with a true positive in class 0.
C9_Witness ==
    /\ fCall # <<>>
    /\ fCall[1].fn = "f_score"
    /\ fCall[1].settings[1].per_image
    /\ fCall[1].settings[1].beta = 2
    /\ fCall[1].settings[1].threshold # <<>>
    /\ fGt.shape.b = 2
    /\ fGt.at[<<0, 0, 0, 0>>] = RatInt(1)
    /\ fPr.at[<<0, 0, 0, 0>>] = RatInt(1)
    /\ fCall[1].result # RatInt(1)

\* x <= y for rationals.
RatLeq(x, y) == ~RatGt(x, y)

\* Every pixel of gt has the value 1 in exactly one class and 0 in the others.
OneHot(gt) ==
    \A b \in 0..(gt.shape.b - 1), h \in 0..(gt.shape.h - 1), w \in 0..(gt.shape.w - 1) :
       Cardinality({c \in 0..(gt.shape.c - 1) : gt.at[<<b, h, w, c>>] = RatInt(1)}) = 1

\* C12: for 3-class gt and pr with values in [0, 1], dice_loss(gt, pr) lies in
\* [1/3, 1], and a perfect prediction, pr equal to a one-hot gt, gives exactly
\* 1/3.
C12_DiceLossRange ==
    (fCall # <<>> /\ fCall[1].fn = "dice_loss") =>
        /\ RatLeq(Rat(1, 3), fCall[1].result)
        /\ RatLeq(fCall[1].result, RatInt(1))
        /\ (OneHot(fGt) /\ fPr = fGt) => fCall[1].result = Rat(1, 3)

\* dice_loss was called on a one-hot gt and a prediction equal to it.
C12_Witness ==
    /\ fCall # <<>>
    /\ fCall[1].fn = "dice_loss"
    /\ OneHot(fGt)
    /\ fPr = fGt
    /\ fCall[1].result = Rat(1, 3)

====
